---- MODULE Spec2Model ----
(***************************************************************************)
(* Batch ingestion pipeline of relic-yuexi/iq.                             *)
(*                                                                         *)
(* Two components are modelled, each as the state machine its code is:     *)
(*   - the automatic drop path, hook useDragAndDrop                        *)
(*     (src/src/hooks/useDragAndDrop.ts): drag listener, debounce,         *)
(*     isProcessingRef guard and the sequential loop of handleFileDrop;    *)
(*   - the manual queue, component BatchFileProcessor                      *)
(*     (src/src/components/CategorySidebar.tsx, lines 537-923).            *)
(*                                                                         *)
(* One step of the model is one event-loop turn: the synchronous code      *)
(* between two awaits.  Every await of a collaborator is a suspension      *)
(* point and its result is chosen nondeterministically.                    *)
(*                                                                         *)
(* Time is abstracted: a setTimeout is "armed" until it fires; timers of   *)
(* the same delay fire in the order they were set.  A drop notification    *)
(* arrives "within the quiescence window" of the previous one exactly when *)
(* the previous one's timer is still armed.                                *)
(***************************************************************************)
EXTENDS Integers, Sequences, FiniteSets, TLC

\* ------------------------------------------------------------------ bounds
MaxDrops == 2        \* drop notifications delivered in one behaviour
MaxPaths == 2        \* length of a dropped path list
MaxFiles == 2        \* items added to the manual queue in one behaviour
MaxStarts == 2       \* processBatch invocations that enter their loop in one behaviour
MaxName == 4         \* length of a display name

\* ------------------------------------------------------------------ values
\* A dropped list is known by the notification that carried it and by its length.
\* Its entries are read once each, by the loop (line 98); whether an entry is
\* the empty string is chosen when the loop reads it (line 103).
ListLengths == 0..MaxPaths

NoIcon == "undefined"
NoResult == "none"
NoBatch == [pc |-> "none", total |-> 0, i |-> 0, isDirectory |-> FALSE, iconResult |-> NoResult,
            successCount |-> 0, errorCount |-> 0, reports |-> 0, call |-> "none"]

\* every item is checked and given its icon as a file is
CallAtAsFile(pc, isDirectory) ==
    CASE pc = "validate" -> "validateFilePath"
      [] pc = "getIcon" -> "getFileIcon"
      [] pc \in {"getPathInfo", "checkFileExists", "createShortcut"} -> pc
      [] OTHER -> "none"

\* the method of dataService an invocation awaits at pc, for an item of the kind:
\* useDragAndDrop.ts lines 112, 123-127, 142, 162-164, 205;
\* CategorySidebar.tsx lines 646-648, 655, 663-665, 678
CallAt(pc, isDirectory) ==
    CASE pc = "validate" -> IF isDirectory THEN "validateDirectoryPath" ELSE "validateFilePath"
      [] pc = "getIcon" -> IF isDirectory THEN "getDirectoryIcon" ELSE "getFileIcon"
      [] pc \in {"getPathInfo", "checkFileExists", "createShortcut"} -> pc
      [] OTHER -> "none"
IconResults == {"data", "nodata", "null", "throw"}
NoHandler == 0
CallbackResults == {"absent", "returns", "throws"}

\* the toasts of the hook: lines 90, 105, 136, 154, 233, 246, 249
ToastKinds == {"empty", "invalidPath", "illegal", "missing", "failed", "success", "failure"}
ItemToasts == {"illegal", "missing", "failed"}

\* ================================================================ automatic path
VARIABLES
    isDragOver,       \* useState, line 42
    isProcessing,     \* useState, line 43
    isProcessingRef,  \* useRef, line 44: the busy flag
    handler,          \* handleFileDropRef.current: which debounced handler the listener calls
    dispatch,         \* per drop notification: the debounced call (its args, its closure, its timer)
    batch,            \* per drop notification: the invocation of the debounced async function
    toasts,           \* toast.success / toast.error calls of the latest turn, counted per kind
    created,          \* the createShortcut request that resolved in the latest turn
    callbacks,        \* the calls of callbacks of UseDragAndDropProps made in the latest turn
    report,           \* the batch result logged in the latest turn (line 239)
    isMounted,        \* line 269: false once the cleanup of the effect has run
    setup,            \* setupDragListener: awaiting onDragDropEvent (line 276), done or failed
    unlisten          \* line 268: null, set (line 276), or set and called (line 315)

dropVars == <<isDragOver, isProcessing, isProcessingRef, handler, dispatch, batch,
              toasts, created, callbacks, report, isMounted, setup, unlisten>>

\* the variables of the effect of lines 267-320
effectVars == <<isMounted, setup, unlisten>>

NoToasts == [k \in ToastKinds |-> 0]
NoRequest == [path |-> "none"]
NoReport == [total |-> -1]

InitDrop ==
    /\ isDragOver = FALSE
    /\ isProcessing = FALSE
    /\ isProcessingRef = FALSE
    /\ handler = 1
    /\ dispatch = <<>>
    /\ batch = <<>>
    /\ toasts = NoToasts
    /\ created = NoRequest
    /\ callbacks = {}
    /\ report = NoReport
    /\ isMounted = TRUE
    /\ setup = "awaiting"
    /\ unlisten = "null"

\* the platform calls the listener from the moment the subscription is made until
\* unlisten is called
Listening == setup = "done" /\ unlisten # "called"

Drops == 1..Len(dispatch)
Armed == {d \in Drops : dispatch[d].st = "armed"}
Running == {d \in Drops : batch[d].pc \notin {"none", "done"}}

Min(S) == CHOOSE x \in S : \A y \in S : x <= y

\* a turn that shows no toast, resolves no request, calls no callback, logs no result
Silent ==
    /\ toasts' = NoToasts
    /\ created' = NoRequest
    /\ callbacks' = {}
    /\ report' = NoReport

\* the guard reads the isProcessing state its closure captured (the initial false)
BusyStale == FALSE

\* the guard is decided when the notification arrives
BusyAtArrival == dispatch[Min(Armed)].busy

\* line 64: the guard reads the ref
Busy == isProcessingRef

\* a discarded call tells the user so
DiscardToastsError == [NoToasts EXCEPT !["failed"] = 1]

\* lines 64-67: a discarded call only logs
DiscardToasts == NoToasts

\* lines 15-17: clearTimeout(timeout) in the closure of handler h; every armed
\* timer has now seen a later notification arrive within its window
ClearTimeout(ds, h) ==
    [k \in 1..Len(ds) |->
        IF ds[k].st # "armed" THEN ds[k]
        ELSE IF ds[k].h = h
             THEN [ds[k] EXCEPT !.st = "cleared", !.n = 0, !.h = NoHandler,
                                !.superseded = TRUE]
             ELSE [ds[k] EXCEPT !.superseded = TRUE]]

\* the loop may take up the entry it has just ended once more
NextAwaitOrSame(b) == b.i..(b.total + 1)

\* lines 98-108: an empty-string entry is tallied without any await, so after the
\* entry at b.i the loop reaches its first await at a later entry j, all entries
\* between being empty strings, or reaches the end of the list (j = total + 1)
NextAwait(b) == (b.i + 1)..(b.total + 1)

\* lines 217 and 234: the tallies after the item at b.i ended with s successes and e errors
Tally(b, s, e) ==
    [b EXCEPT !.successCount = @ + s, !.errorCount = @ + e]

\* the local variables of an invocation that has returned
Returned(total, reports) ==
    [pc |-> "done", total |-> total, i |-> 0, isDirectory |-> FALSE,
     iconResult |-> NoResult,
     successCount |-> 0, errorCount |-> 0, reports |-> reports, call |-> "none"]

\* an item that ends with an error ends the loop
AdvanceHaltsOnError(b, s, e, j) ==
    LET b1 == Tally(b, s, e)
        b2 == [b1 EXCEPT !.errorCount = @ + (j - (b.i + 1)),
                         !.i = j, !.isDirectory = FALSE, !.iconResult = NoResult]
    IN  IF j > b.total \/ e > 0
        THEN [b2 EXCEPT !.pc = "report"]
        ELSE [b2 EXCEPT !.pc = "getPathInfo"]

\* the empty-string entries the loop passes are not tallied
AdvanceSkipsUntallied(b, s, e, j) ==
    LET b1 == Tally(b, s, e)
        b2 == [b1 EXCEPT !.i = j, !.isDirectory = FALSE, !.iconResult = NoResult]
    IN  IF j > b.total
        THEN [b2 EXCEPT !.pc = "report"]
        ELSE [b2 EXCEPT !.pc = "getPathInfo"]

\* lines 98-108: the loop goes on from the entry after b.i up to its next await
\* at entry j, or to the end of the list (pc = "report")
Advance(b, s, e, j) ==
    LET b1 == Tally(b, s, e)
        b2 == [b1 EXCEPT !.errorCount = @ + (j - (b.i + 1)),
                         !.i = j, !.isDirectory = FALSE, !.iconResult = NoResult]
    IN  IF j > b.total
        THEN [b2 EXCEPT !.pc = "report"]
        ELSE [b2 EXCEPT !.pc = "getPathInfo"]

\* the result is logged inside the loop, after every item
ReportedPerItem(c) == TRUE

\* lines 236-243: the result is logged once the loop is over
Reported(c) == c.pc = "report"

\* the flags are left as the turn found them
FinallyKeeps(over, flag) == flag

\* lines 255-258: the finally block runs when the async function is over; until
\* then a flag is what the turn found (or, lines 72-73, set)
Finally(over, flag) == IF over THEN FALSE ELSE flag

\* an aggregate toast is shown whatever its count
AggregateAlways(over, count) == IF over THEN 1 ELSE 0

\* lines 245-250: after the loop, a toast for a count that is not zero
Aggregate(over, count) == IF over /\ count > 0 THEN 1 ELSE 0

\* lines 238-258: the end of the turn that took the batch of drop d from b to c;
\* item is the toast.error the turn ended an item with (lines 136, 154, 233), if any;
\* flag is the value the turn found (or, lines 72-73, set) in the two flags
EndTurn(d, b, c, item, flag) ==
    LET over == c.pc = "report"
        said == IF Reported(c) THEN 1 ELSE 0
    IN  /\ toasts' =
             [k \in ToastKinds |->
                CASE k = "empty" -> 0
                  [] k = "invalidPath" -> (c.errorCount - b.errorCount)
                                          - (IF item \in ItemToasts THEN 1 ELSE 0)
                  [] k \in ItemToasts -> IF k = item THEN 1 ELSE 0
                  [] k = "success" -> Aggregate(over, c.successCount)
                  [] k = "failure" -> Aggregate(over, c.errorCount)]
        /\ report' = IF Reported(c)
                     THEN [total |-> c.total, successCount |-> c.successCount,
                           errorCount |-> c.errorCount]
                     ELSE NoReport
        /\ batch' = [batch EXCEPT ![d] = IF over THEN Returned(c.total, c.reports + said)
                                         ELSE [c EXCEPT !.reports = @ + said,
                                                        !.call = CallAt(c.pc, c.isDirectory)]]
        /\ isProcessing' = Finally(over, flag[1])
        /\ isProcessingRef' = Finally(over, flag[2])

\* ---------------------------------------------------------------- listener
\* an over event leaves the hover state as it is
HoverAfterOverKeeps(type) == IF type = "over" THEN isDragOver ELSE type = "enter"

\* lines 283-300: setIsDragOver of the four event types
HoverAfter(type) == type \in {"enter", "over"}

\* line 276 resolves: the listener is registered and unlisten is assigned,
\* whether or not the cleanup has run in the meantime
Subscribed ==
    /\ setup = "awaiting"
    /\ setup' = "done"
    /\ unlisten' = "set"
    /\ Silent
    /\ UNCHANGED <<isDragOver, isProcessing, isProcessingRef, handler, dispatch, batch, isMounted>>

\* lines 304-307: onDragDropEvent (or getCurrentWebview) fails; the catch logs
SubscribeFails ==
    /\ setup = "awaiting"
    /\ setup' = "failed"
    /\ Silent
    /\ UNCHANGED <<isDragOver, isProcessing, isProcessingRef, handler, dispatch, batch, isMounted,
                   unlisten>>

\* lines 314-317: the cleanup calls unlisten if it has been assigned
Cleanup == IF unlisten = "set" THEN "called" ELSE unlisten

\* lines 312-318: the cleanup of the effect, run when the component unmounts
Teardown ==
    /\ isMounted
    /\ isMounted' = FALSE
    /\ unlisten' = Cleanup
    /\ Silent
    /\ UNCHANGED <<isDragOver, isProcessing, isProcessingRef, handler, dispatch, batch, setup>>

\* line 280: an event delivered after the cleanup has run is ignored
EventIgnored ==
    /\ Listening
    /\ ~isMounted
    /\ Silent
    /\ UNCHANGED <<isDragOver, isProcessing, isProcessingRef, handler, dispatch, batch, effectVars>>

\* lines 283-285
DragEnter ==
    /\ Listening
    /\ isMounted
    /\ isDragOver' = HoverAfter("enter")
    /\ Silent
    /\ UNCHANGED <<isProcessing, isProcessingRef, handler, dispatch, batch, effectVars>>

\* lines 286-289
DragOver ==
    /\ Listening
    /\ isMounted
    /\ isDragOver' = HoverAfter("over")
    /\ Silent
    /\ UNCHANGED <<isProcessing, isProcessingRef, handler, dispatch, batch, effectVars>>

\* lines 297-300
DragLeave ==
    /\ Listening
    /\ isMounted
    /\ isDragOver' = HoverAfter("leave")
    /\ Silent
    /\ UNCHANGED <<isProcessing, isProcessingRef, handler, dispatch, batch, effectVars>>

\* lines 290-296 and 13-26: the drop notification calls the current debounced
\* handler, which clears its own timer and arms a new one (busy: whether a batch
\* was in flight when the notification arrived; the code does not look)
DragDrop ==
    /\ Listening
    /\ isMounted
    /\ Len(dispatch) < MaxDrops
    /\ \E n \in ListLengths :
         dispatch' = Append(ClearTimeout(dispatch, handler),
                            [n |-> n, h |-> handler, st |-> "armed",
                             superseded |-> FALSE, busy |-> isProcessingRef])
    /\ batch' = Append(batch, NoBatch)
    /\ isDragOver' = HoverAfter("drop")
    /\ Silent
    /\ UNCHANGED <<isProcessing, isProcessingRef, handler, effectVars>>

\* lines 11 and 15-17: a debounce closure whose timer is not armed behaves as a
\* new one does (clearTimeout of a fired or cleared timer does nothing), so
\* closures are named only while their timer is armed
FreshHandler ==
    IF \A d \in Armed : dispatch[d].h # handler THEN handler
    ELSE Min({h \in 1..(MaxDrops + 1) : \A d \in Armed : dispatch[d].h # h})

\* lines 61-62 and 260: a render with changed categoryId, dataService or onFileAdded
\* makes useCallback keep a new debounce(...) closure, with its own timeout
Rerender ==
    /\ isMounted
    /\ handler' = FreshHandler
    /\ Silent
    /\ UNCHANGED <<isDragOver, isProcessing, isProcessingRef, dispatch, batch, effectVars>>

\* no list is taken for empty
EmptyListNever(n) == FALSE

\* line 88: filePaths.length === 0
EmptyList(n) == n = 0

\* lines 62-98: the local variables when the loop is entered
Entered(n) ==
    [pc |-> "loop", total |-> n, i |-> 0, isDirectory |-> FALSE,
     iconResult |-> NoResult,
     successCount |-> 0, errorCount |-> 0, reports |-> 0, call |-> "none"]

\* lines 19-25 and 62-108: the earliest armed timer fires and calls func(...args)
TimerFire ==
    /\ Armed # {}
    /\ LET d == Min(Armed)
           n == dispatch[d].n
       IN  IF Busy
           THEN /\ dispatch' = [dispatch EXCEPT ![d].st = "discarded", ![d].n = 0,
                                                 ![d].h = NoHandler]
                /\ toasts' = DiscardToasts
                /\ created' = NoRequest
                /\ callbacks' = {}
                /\ report' = NoReport
                /\ UNCHANGED <<isDragOver, isProcessing, isProcessingRef, batch>>
           ELSE /\ dispatch' = [dispatch EXCEPT ![d].st = "started", ![d].n = 0,
                                                 ![d].h = NoHandler]
                /\ isDragOver' = FALSE
                /\ created' = NoRequest
                /\ callbacks' = {}
                /\ IF EmptyList(n)
                   THEN \* lines 88-92 and 255-258
                        /\ toasts' = [NoToasts EXCEPT !["empty"] = 1]
                        /\ report' = NoReport
                        /\ batch' = [batch EXCEPT ![d] = Returned(0, 0)]
                        /\ isProcessing' = Finally(TRUE, TRUE)
                        /\ isProcessingRef' = Finally(TRUE, TRUE)
                   ELSE \E j \in NextAwait(Entered(n)) :
                          EndTurn(d, Entered(n), Advance(Entered(n), 0, 0, j), "none",
                                  <<TRUE, TRUE>>)
    /\ UNCHANGED <<handler, effectVars>>

\* ---------------------------------------------------------------- the loop body
\* the batch of drop d resumes after an await and ends its item with an error,
\* shown by the toast item (lines 134-138, 149-156, 227-235)
ItemFails(d, item) ==
    /\ \E j \in NextAwait(batch[d]) :
         EndTurn(d, batch[d], Advance(batch[d], 0, 1, j), item,
                 <<isProcessing, isProcessingRef>>)
    /\ created' = NoRequest
    /\ callbacks' = {}
    /\ UNCHANGED <<isDragOver, handler, dispatch, effectVars>>

Proceed(d, c) ==
    /\ batch' = [batch EXCEPT ![d] = [c EXCEPT !.call = CallAt(c.pc, c.isDirectory)]]
    /\ Silent
    /\ UNCHANGED <<isDragOver, isProcessing, isProcessingRef, handler, dispatch, effectVars>>

\* line 112
GetPathInfo(d) ==
    /\ batch[d].pc = "getPathInfo"
    /\ \/ \E dir \in BOOLEAN :
            Proceed(d, [batch[d] EXCEPT !.pc = "validate", !.isDirectory = dir])
       \/ ItemFails(d, "failed")

\* an illegal path is shown and tallied, and the item goes on to the existence check
ValidatePathGoesOn(d) ==
    /\ batch[d].pc = "validate"
    /\ batch' = [batch EXCEPT ![d] = [batch[d] EXCEPT !.pc = "checkFileExists",
                                                      !.call = "checkFileExists",
                                                      !.errorCount = @ + 1]]
    /\ toasts' = [NoToasts EXCEPT !["illegal"] = 1]
    /\ created' = NoRequest
    /\ callbacks' = {}
    /\ report' = NoReport
    /\ UNCHANGED <<isDragOver, isProcessing, isProcessingRef, handler, dispatch, effectVars>>

\* lines 122-139
ValidatePath(d) ==
    /\ batch[d].pc = "validate"
    /\ \/ Proceed(d, [batch[d] EXCEPT !.pc = "checkFileExists"])
       \/ ItemFails(d, "illegal")
       \/ ItemFails(d, "failed")

\* lines 142-157
CheckFileExists(d) ==
    /\ batch[d].pc = "checkFileExists"
    /\ \/ Proceed(d, [batch[d] EXCEPT !.pc = "getIcon"])
       \/ ItemFails(d, "missing")
       \/ ItemFails(d, "failed")

\* every result of the icon collaborator sets iconPath
IconPathOfAnyResult(r) == "icon"

\* lines 172-174: only a result that carries icon_data sets iconPath
IconPath(r) == IF r = "data" THEN "icon" ELSE NoIcon

\* lines 160-182: no result of the icon collaborator leaves the try block
GetIcon(d) ==
    /\ batch[d].pc = "getIcon"
    /\ \E r \in IconResults :
         Proceed(d, [batch[d] EXCEPT !.pc = "createShortcut", !.iconResult = r])

\* lines 217-235: what the item adds to errorCount after successCount++ when the
\* onFileAdded call ends as cb
CallbackErrors(cb) == IF cb = "throws" THEN 1 ELSE 0

\* lines 205-235
CreateShortcut(d) ==
    /\ batch[d].pc = "createShortcut"
    /\ \/ ItemFails(d, "failed")
       \/ \E cb \in CallbackResults :
            LET b == batch[d]
                e == CallbackErrors(cb)
            IN  /\ created' = [path |-> <<d, b.i>>, icon |-> IconPath(b.iconResult)]
                /\ callbacks' = IF cb = "absent" THEN {}
                                 ELSE {[name |-> "onFileAdded", path |-> <<d, b.i>>]}
                /\ \E j \in NextAwait(b) :
                     EndTurn(d, b, Advance(b, 1, e, j),
                             IF e > 0 THEN "failed" ELSE "none",
                             <<isProcessing, isProcessingRef>>)
                /\ UNCHANGED <<isDragOver, handler, dispatch, effectVars>>

DropNext ==
    \/ Subscribed
    \/ SubscribeFails
    \/ Teardown
    \/ EventIgnored
    \/ DragEnter
    \/ DragOver
    \/ DragLeave
    \/ DragDrop
    \/ Rerender
    \/ TimerFire
    \/ \E d \in Drops : GetPathInfo(d)
    \/ \E d \in Drops : ValidatePath(d)
    \/ \E d \in Drops : CheckFileExists(d)
    \/ \E d \in Drops : GetIcon(d)
    \/ \E d \in Drops : CreateShortcut(d)

\* ================================================================ manual queue
\* BatchFileProcessor, src/src/components/CategorySidebar.tsx lines 575-921.
\* A handler is a closure of the render it was created in: it reads files,
\* currentIndex and isPaused as they were when it was called, for as long as it
\* runs; setState calls with an updater act on the state of the moment.
\* onComplete is a call of a prop: what the parent does with it is not part of
\* the component.
VARIABLES
    files,            \* useState, line 580
    queueProcessing,  \* useState isProcessing, line 581
    isPaused,         \* useState, line 582
    progress,         \* useState, line 583: (done / of) * 100
    currentIndex,     \* useState, line 584 (0-based, as in the code)
    runs,             \* the processBatch invocations suspended at an await
    adds,             \* the addFromDialog / addFilePath invocations suspended at an await
    nextId,           \* ids handed out so far (line 593 makes each id new)
    started,          \* processBatch invocations that have entered their loop so far
    invocations,      \* per id: processFile calls since the item was added or reset
    notices,          \* the toasts of the latest turn
    request,          \* the createShortcut request that resolved in the latest turn
    onComplete,       \* the onComplete(successCount, errorCount) call of the latest turn
    skipped           \* why the add handler of the latest turn returned early, if it did

queueVars == <<files, queueProcessing, isPaused, progress, currentIndex, runs, adds, nextId,
               started, invocations, notices, request, onComplete, skipped>>

NoError == "undefined"
Terminal == {"success", "error"}
Ids == 1..MaxFiles
NoProgress == [done |-> 0, of |-> 1]
NotCalled == [successCount |-> -1]
NotSkipped == "no"

InitQueue ==
    /\ files = <<>>
    /\ queueProcessing = FALSE
    /\ isPaused = FALSE
    /\ progress = NoProgress
    /\ currentIndex = 0
    /\ runs = <<>>
    /\ adds = <<>>
    /\ nextId = 0
    /\ started = 0
    /\ invocations = [id \in Ids |-> 0]
    /\ notices = {}
    /\ request = NoRequest
    /\ onComplete = NotCalled
    /\ skipped = NotSkipped

\* a turn that shows no toast, resolves no request and calls no onComplete
Quiet ==
    /\ notices' = {}
    /\ request' = NoRequest
    /\ onComplete' = NotCalled
    /\ skipped' = NotSkipped

Remove(seq, k) == [m \in 1..(Len(seq) - 1) |-> IF m < k THEN seq[m] ELSE seq[m + 1]]

\* setFiles(prev => prev.map(f => f.id === id ? change(f) : f))
MapItem(fs, id, status, error, iconData) ==
    [k \in 1..Len(fs) |->
        IF fs[k].id = id
        THEN [fs[k] EXCEPT !.status = status,
                           !.error = IF error = "keep" THEN @ ELSE error,
                           !.iconData = IF iconData = "keep" THEN @ ELSE iconData]
        ELSE fs[k]]

Count(id) == IF invocations[id] < 2 THEN invocations[id] + 1 ELSE 2

\* ---------------------------------------------------------------- editing the queue
\* line 785 (button, disabled while isProcessing) and line 609
OpenDialog ==
    /\ ~queueProcessing
    /\ nextId + Len(adds) < MaxFiles
    /\ adds' = Append(adds, "openFileDialog")
    /\ Quiet
    /\ UNCHANGED <<files, queueProcessing, isPaused, progress, currentIndex, runs, nextId, started,
                   invocations>>

\* a dialog closed without a path is reported as a failed dialog
CancelNoticeError == {"dialogFailed"}

\* lines 610-612: with no path addFromDialog does nothing more
CancelNotice == {}

\* lines 609-615: the dialog yields a path, yields none, or fails
DialogCloses(k) ==
    /\ adds[k] = "openFileDialog"
    /\ \/ /\ adds' = [adds EXCEPT ![k] = "getPathInfo"]
          /\ Quiet
       \/ /\ adds' = Remove(adds, k)
          /\ notices' = CancelNotice
          /\ request' = NoRequest
          /\ onComplete' = NotCalled
          /\ skipped' = "cancelled"
       \/ /\ adds' = Remove(adds, k)
          /\ notices' = {"dialogFailed"}
          /\ request' = NoRequest
          /\ onComplete' = NotCalled
          /\ skipped' = NotSkipped
    /\ UNCHANGED <<files, queueProcessing, isPaused, progress, currentIndex, runs, nextId, started,
                   invocations>>

\* lines 818-825 (input, disabled while isProcessing) and 587-591
TypePath ==
    /\ ~queueProcessing
    /\ \/ /\ nextId + Len(adds) < MaxFiles
          /\ adds' = Append(adds, "getPathInfo")
          /\ Quiet
       \/ /\ adds' = adds            \* line 588: a blank path
          /\ notices' = {}
          /\ request' = NoRequest
          /\ onComplete' = NotCalled
          /\ skipped' = "blank"
    /\ UNCHANGED <<files, queueProcessing, isPaused, progress, currentIndex, runs, nextId, started,
                   invocations>>

\* line 591: what getPathInfo says of the path that gets the id; no step of the
\* component depends on the kind, so the paths typed are a file, a directory, ...
IsDirectory(id) == id % 2 = 0

\* the item is added as one that is being processed
NewFileProcessing(id) ==
    [id |-> id, isDirectory |-> IsDirectory(id), status |-> "processing", error |-> NoError,
     iconData |-> NoIcon]

\* lines 592-598: the item addFilePath makes of the path info
NewFile(id) ==
    [id |-> id, isDirectory |-> IsDirectory(id), status |-> "pending", error |-> NoError,
     iconData |-> NoIcon]

\* lines 591-603
PathInfoArrives(k) ==
    /\ adds[k] = "getPathInfo"
    /\ adds' = Remove(adds, k)
    /\ \/ /\ files' = Append(files, NewFile(nextId + 1))
          /\ nextId' = nextId + 1
          /\ invocations' = [invocations EXCEPT ![nextId + 1] = 0]
          /\ Quiet
       \/ /\ notices' = {"noPathInfo"}
          /\ request' = NoRequest
          /\ onComplete' = NotCalled
          /\ skipped' = NotSkipped
          /\ UNCHANGED <<files, nextId, started, invocations>>
    /\ UNCHANGED <<queueProcessing, isPaused, progress, currentIndex, runs, started>>

\* lines 619-621 and 898-902 (disabled while isProcessing)
RemoveFile(k) ==
    /\ ~queueProcessing
    /\ files' = Remove(files, k)
    /\ Quiet
    /\ UNCHANGED <<queueProcessing, isPaused, progress, currentIndex, runs, adds, nextId, started,
                   invocations>>

\* the list is emptied and the cursor stays
ClearAllKeepsCursor ==
    /\ ~queueProcessing
    /\ files' = <<>>
    /\ progress' = NoProgress
    /\ Quiet
    /\ UNCHANGED <<queueProcessing, isPaused, currentIndex, runs, adds, nextId, started,
                   invocations>>

\* lines 624-628 and 800-804 (disabled while isProcessing)
ClearAll ==
    /\ ~queueProcessing
    /\ files' = <<>>
    /\ progress' = NoProgress
    /\ currentIndex' = 0
    /\ Quiet
    /\ UNCHANGED <<queueProcessing, isPaused, runs, adds, nextId, started, invocations>>

\* line 632: what resetStatus makes of one item
ResetItem(f) == [f EXCEPT !.status = "pending", !.error = NoError]

\* lines 631-635 and 791-795 (disabled while isProcessing or with no file)
ResetStatus ==
    /\ ~queueProcessing
    /\ Len(files) > 0
    /\ files' = [k \in 1..Len(files) |-> ResetItem(files[k])]
    /\ progress' = NoProgress
    /\ currentIndex' = 0
    /\ invocations' = [id \in Ids |-> 0]
    /\ Quiet
    /\ UNCHANGED <<queueProcessing, isPaused, runs, adds, nextId, started>>

\* lines 746-748 and 852-856 (rendered while isProcessing)
TogglePause ==
    /\ queueProcessing
    /\ isPaused' = ~isPaused
    /\ Quiet
    /\ UNCHANGED <<files, queueProcessing, progress, currentIndex, runs, adds, nextId, started,
                   invocations>>

\* ---------------------------------------------------------------- processBatch
\* lines 646-683: of the items its closure captured, a run reads the id, the kind
\* (and the path and the name, which the id stands for)
Captured(fs) == [k \in 1..Len(fs) |-> [id |-> fs[k].id]]

\* line 717: the loop reads the isPaused its closure captured
PausedSeenBy(r) == r.isPaused

\* line 716: the loop starts at the currentIndex its closure captured
FirstIndex(r) == r.currentIndex

\* line 736: the test that decides whether the run reports completion
Complete(r) == r.currentIndex >= Len(r.files) - 1

\* lines 734-742: after the loop
AfterLoop(r, k) ==
    /\ queueProcessing' = FALSE
    /\ runs' = IF k = 0 THEN runs ELSE Remove(runs, k)
    /\ notices' = IF Complete(r) THEN {"batchComplete"} ELSE {}
    /\ onComplete' = IF Complete(r)
                     THEN [successCount |-> r.successCount, errorCount |-> r.errorCount]
                     ELSE NotCalled
    /\ request' = NoRequest
    /\ skipped' = NotSkipped

\* lines 716-720 and 641-648: the loop is at index r.i; it breaks, or selects the
\* item and calls processFile, which runs up to its first await; k is the place
\* of the run in runs (0: the run is being started)
Iterate(r, k, fs) ==
    IF r.i >= Len(r.files) \/ PausedSeenBy(r)
    THEN /\ AfterLoop(r, k)
         /\ files' = fs
         /\ UNCHANGED <<currentIndex, invocations>>
    ELSE LET id == r.files[r.i + 1].id
             r1 == [r EXCEPT !.pc = "validate", !.call = CallAt("validate", IsDirectory(id))]
         IN  /\ currentIndex' = r.i
             /\ files' = MapItem(fs, id, "processing", "keep", "keep")
             /\ invocations' = [invocations EXCEPT ![id] = Count(id)]
             /\ runs' = IF k = 0 THEN Append(runs, r1) ELSE [runs EXCEPT ![k] = r1]
             /\ queueProcessing' = (k = 0 \/ queueProcessing)
             /\ Quiet

\* lines 704-720 and 843-850: the start button (rendered with a file in the list,
\* disabled while isProcessing && !isPaused)
Start ==
    /\ Len(files) > 0
    /\ ~(queueProcessing /\ ~isPaused)
    /\ LET r == [files |-> Captured(files), currentIndex |-> currentIndex,
                 isPaused |-> isPaused,
                 i |-> currentIndex, successCount |-> 0, errorCount |-> 0,
                 pc |-> "start", iconResult |-> NoResult, call |-> "none"]
           r0 == [r EXCEPT !.i = FirstIndex(r)]
           loops == r0.i < Len(files) /\ ~PausedSeenBy(r0)
       IN  /\ loops => started < MaxStarts
           /\ started' = IF loops THEN started + 1 ELSE started
           /\ Iterate(r0, 0, files)
    /\ isPaused' = FALSE
    /\ UNCHANGED <<progress, adds, nextId>>

\* lines 704-708: processBatch called with no file in the list shows a toast and
\* returns.  (The only caller is the start button, line 844, which line 841
\* renders with a file in the list.)
StartEmpty ==
    /\ Len(files) = 0
    /\ notices' = {"emptyQueue"}
    /\ request' = NoRequest
    /\ onComplete' = NotCalled
    /\ skipped' = NotSkipped
    /\ UNCHANGED <<files, queueProcessing, isPaused, progress, currentIndex, runs, adds, nextId,
                   started, invocations>>

\* lines 650-658 and 691-700, 722-731: processFile ends in its catch block
\* with the message msg; the loop tallies and waits
Fails(k, msg) ==
    LET r  == runs[k]
        id == r.files[r.i + 1].id
    IN  /\ files' = MapItem(files, id, "error", msg, "keep")
        /\ runs' = [runs EXCEPT ![k] = [r EXCEPT !.pc = "delay", !.errorCount = @ + 1,
                                                 !.call = "none",
                                                 !.iconResult = NoResult]]
        /\ progress' = [done |-> r.i + 1, of |-> Len(r.files)]
        /\ Quiet
        /\ UNCHANGED <<queueProcessing, isPaused, currentIndex, adds, nextId, started, invocations>>

\* lines 646-683: what a collaborator call rejects with: an Error, or any other value
Rejections == {"Error", "other"}

\* the message of whatever was thrown is recorded
ErrorMessageOfAny(rej) == IF rej = "Error" THEN "message" ELSE NoError

\* line 692: a rejection that is an Error gives its message, any other gives '未知错误'
ErrorMessage(rej) == IF rej = "Error" THEN "message" ELSE "unknownError"

\* the existence check reports the cause the legality check reports
NotExistsErrorAsInvalid == "invalidPath"

\* line 657
NotExistsError == "doesNotExist"

Goes(k, pc, iconResult) ==
    /\ runs' = [runs EXCEPT ![k] =
                  [runs[k] EXCEPT !.pc = pc, !.iconResult = iconResult,
                                  !.call = CallAt(pc, IsDirectory(runs[k].files[runs[k].i + 1].id))]]
    /\ Quiet
    /\ UNCHANGED <<files, queueProcessing, isPaused, progress, currentIndex, adds, nextId, started,
                   invocations>>

\* lines 646-652
QueueValidate(k) ==
    /\ runs[k].pc = "validate"
    /\ \/ Goes(k, "checkFileExists", NoResult)
       \/ Fails(k, "invalidPath")
       \/ \E m \in Rejections : Fails(k, ErrorMessage(m))

\* lines 655-658
QueueCheckExists(k) ==
    /\ runs[k].pc = "checkFileExists"
    /\ \/ Goes(k, "getIcon", NoResult)
       \/ Fails(k, NotExistsError)
       \/ \E m \in Rejections : Fails(k, ErrorMessage(m))

\* line 666: iconResult.icon_data; reading it off a null result throws inside the try
IconData(r) == IF r = "data" THEN "icon" ELSE NoIcon

\* lines 661-669
QueueGetIcon(k) ==
    /\ runs[k].pc = "getIcon"
    /\ \E res \in IconResults : Goes(k, "createShortcut", res)

\* lines 678-690 and 722-731
QueueCreateShortcut(k) ==
    /\ runs[k].pc = "createShortcut"
    /\ \/ \E m \in Rejections : Fails(k, ErrorMessage(m))
       \/ LET r  == runs[k]
              id == r.files[r.i + 1].id
          IN  /\ files' = MapItem(files, id, "success", "keep", IconData(r.iconResult))
              /\ runs' = [runs EXCEPT ![k] = [r EXCEPT !.pc = "delay",
                                                       !.call = "none",
                                                       !.iconResult = NoResult,
                                                       !.successCount = @ + 1]]
              /\ progress' = [done |-> r.i + 1, of |-> Len(r.files)]
              /\ request' = [path |-> id, icon |-> IconData(r.iconResult)]
              /\ notices' = {}
              /\ onComplete' = NotCalled
              /\ skipped' = NotSkipped
              /\ UNCHANGED <<queueProcessing, isPaused, currentIndex, adds, nextId, started,
                             invocations>>

\* lines 731 and 716-720: the delay is over, i++
DelayOver(k) ==
    /\ runs[k].pc = "delay"
    /\ Iterate([runs[k] EXCEPT !.i = @ + 1], k, files)
    /\ UNCHANGED <<isPaused, progress, adds, nextId, started>>

QueueNext ==
    \/ OpenDialog
    \/ \E k \in 1..Len(adds) : DialogCloses(k)
    \/ TypePath
    \/ \E k \in 1..Len(adds) : PathInfoArrives(k)
    \/ \E k \in 1..Len(files) : RemoveFile(k)
    \/ ClearAll
    \/ ResetStatus
    \/ TogglePause
    \/ Start
    \/ StartEmpty
    \/ \E k \in 1..Len(runs) : QueueValidate(k)
    \/ \E k \in 1..Len(runs) : QueueCheckExists(k)
    \/ \E k \in 1..Len(runs) : QueueGetIcon(k)
    \/ \E k \in 1..Len(runs) : QueueCreateShortcut(k)
    \/ \E k \in 1..Len(runs) : DelayOver(k)

\* ================================================================ shortcut name
\* The name handed to createShortcut is computed from the path descriptor alone
\* (pathInfo.file_name and pathInfo.is_directory; in the manual queue the item's
\* name and isDirectory, copied from the descriptor at lines 595-596), by the same
\* three lines in the hook and in the component.  A name is a sequence of
\* characters; a display name is the last segment of a path and holds no '/'.
VARIABLES
    descriptor,       \* the path descriptor the name was last derived from
    shortcutName,     \* the name derived from it
    namedBy           \* which of the two places derived it

nameVars == <<descriptor, shortcutName, namedBy>>

Chars == {"a", "b", "."}
Names == UNION {[1..n -> Chars] : n \in 1..MaxName}

InitName ==
    /\ descriptor = [file_name |-> <<>>, is_directory |-> FALSE]
    /\ shortcutName = <<>>
    /\ namedBy = "none"

\* String.prototype.includes
Includes(name, ch) == \E k \in 1..Len(name) : name[k] = ch

\* the pattern /\.[^/.]+$/ : a '.', then one character or more, none of them '/'
\* or '.', up to the end of the name; the place of the match, 0 if there is none
ExtensionAt(name) ==
    LET at == {k \in 1..(Len(name) - 1) :
                  /\ name[k] = "."
                  /\ \A m \in (k + 1)..Len(name) : name[m] \notin {"/", "."}}
    IN  IF at = {} THEN 0 ELSE Min(at)

\* name.replace(/\.[^/.]+$/, '')
StripExtension(name) ==
    IF ExtensionAt(name) = 0 THEN name ELSE SubSeq(name, 1, ExtensionAt(name) - 1)

\* useDragAndDrop.ts lines 185-189
HookShortcutName(d) ==
    IF ~d.is_directory /\ Includes(d.file_name, ".")
    THEN StripExtension(d.file_name)
    ELSE d.file_name

\* the component hands the display name over as it is
QueueShortcutNameUnstripped(d) == d.file_name

\* CategorySidebar.tsx lines 672-675
QueueShortcutName(d) ==
    IF ~d.is_directory /\ Includes(d.file_name, ".")
    THEN StripExtension(d.file_name)
    ELSE d.file_name

\* the hook derives the name of an item
HookNames ==
    \E n \in Names, dir \in BOOLEAN :
        /\ descriptor' = [file_name |-> n, is_directory |-> dir]
        /\ shortcutName' = HookShortcutName([file_name |-> n, is_directory |-> dir])
        /\ namedBy' = "hook"

\* the component derives the name of an item
QueueNames ==
    \E n \in Names, dir \in BOOLEAN :
        /\ descriptor' = [file_name |-> n, is_directory |-> dir]
        /\ shortcutName' = QueueShortcutName([file_name |-> n, is_directory |-> dir])
        /\ namedBy' = "queue"

NameNext == HookNames \/ QueueNames

\* ================================================================ specifications
vars == <<dropVars, queueVars, nameVars>>

Init == InitDrop /\ InitQueue /\ InitName

\* the derivation of the name alone
SpecName == Init /\ [][NameNext /\ UNCHANGED <<dropVars, queueVars>>]_vars

\* the hook alone
SpecDrop == Init /\ [][DropNext /\ UNCHANGED <<queueVars, nameVars>>]_vars

\* an await of a collaborator of the hook resumes
Resumes ==
    \E d \in Drops :
        GetPathInfo(d) \/ ValidatePath(d) \/ CheckFileExists(d) \/ GetIcon(d) \/ CreateShortcut(d)

\* the hook alone, every collaborator call and the subscription of the listener
\* eventually returning or failing
SpecDropLive ==
    /\ SpecDrop
    /\ WF_vars(Resumes /\ UNCHANGED <<queueVars, nameVars>>)
    /\ WF_vars((Subscribed \/ SubscribeFails) /\ UNCHANGED <<queueVars, nameVars>>)

\* the component alone
SpecQueue == Init /\ [][QueueNext /\ UNCHANGED <<dropVars, nameVars>>]_vars

\* either of the two; they share no state
Next ==
    \/ InitQueue /\ DropNext /\ UNCHANGED <<queueVars, nameVars>>
    \/ InitDrop /\ QueueNext /\ UNCHANGED <<dropVars, nameVars>>

Spec == Init /\ [][Next]_vars

\* ================================================================ claims, automatic path

\* C1 (as claimed): when an automatic batch over a non-empty list P finishes,
\* successCount + errorCount = len(P): every path is tallied exactly once.
C1_TalliesSumToLength ==
    report # NoReport => report.successCount + report.errorCount = report.total

C3_SupersededNeverRuns ==
    \A d \in Drops :
        dispatch[d].superseded => (batch[d].pc = "none" \/ batch[d].total = 0)

\* C4: at most one automatic batch is in flight, and the busy flag is true for as
\* long as a batch's loop has not finished.
C4_AtMostOneBatch ==
    /\ Cardinality(Running) <= 1
    /\ Running # {} => isProcessingRef

C4_Witness ==
    /\ Running # {}
    /\ \E d \in Drops : dispatch[d].st = "discarded"

\* C5: a dispatch that fires while the busy flag is true is discarded: it starts no
\* batch, changes neither flag nor the running batch's tallies, resolves no
\* request, calls no callback and shows no toast.
C5_DiscardIsSilent ==
    [][\A d \in Drops :
          (isProcessingRef /\ dispatch[d].st = "armed"
                           /\ dispatch'[d].st \notin {"armed", "cleared"})
          => /\ dispatch'[d].st = "discarded"
             /\ batch' = batch
             /\ UNCHANGED <<isDragOver, isProcessing, isProcessingRef>>
             /\ toasts' = NoToasts
             /\ created' = NoRequest
             /\ callbacks' = {}
             /\ report' = NoReport]_vars

C5_Witness ==
    \E d, e \in Drops :
        /\ dispatch[d].st = "discarded"
        /\ batch[d].pc = "none"
        /\ batch[e].pc \notin {"none", "done"}
        /\ batch[e].successCount + batch[e].errorCount > 0

\* C14 (as claimed): onFileAdded is called only in the turn in which the
\* createShortcut call for its path returned, and that path is not tallied as an error.
C14_CallbackOnlyForSuccess ==
    [][\A c \in callbacks' :
          /\ created' # NoRequest
          /\ created'.path = c.path
          /\ toasts'["failed"] = 0]_vars

\* C26: the busy guard is read when the timer fires.  A dispatch that fires is
\* discarded exactly when the flag is set in that turn, whatever the flag was when
\* its notification arrived; otherwise it starts a batch over its own list.  The
\* arrival of a notification starts and discards nothing.
C26_GuardReadAtFire ==
    [][/\ \A d \in Drops :
            (dispatch[d].st = "armed" /\ dispatch'[d].st \notin {"armed", "cleared"})
            => /\ dispatch'[d].st = "discarded" <=> isProcessingRef
               /\ dispatch'[d].st = "started" <=> ~isProcessingRef
               /\ dispatch'[d].st = "started"
                  => /\ batch'[d].pc # "none"
                     /\ batch'[d].total = dispatch[d].n
                     /\ \A e \in Drops \ {d} : batch'[e] = batch[e]
       /\ Len(dispatch') > Len(dispatch)
          => /\ dispatch'[Len(dispatch')].st = "armed"
             /\ batch'[Len(dispatch')] = NoBatch
             /\ \A e \in Drops : batch'[e] = batch[e]
             /\ UNCHANGED <<isProcessing, isProcessingRef>>]_vars

\* C26: a notification that arrived while a batch was in flight has started a
\* batch of its own, the earlier batch having returned before the timer fired
C26_Witness ==
    \E d \in Drops :
        /\ dispatch[d].busy
        /\ dispatch[d].st = "started"
        /\ batch[d].total > 0
        /\ batch[d].pc \notin {"none", "done"}

\* C27 (as claimed): at most one debounced dispatch is armed at any time.
C27_OneDispatchArmed ==
    Cardinality(Armed) <= 1

\* the errors a batch has tallied (the result record holds them once it returned)
ErrorsOf(b, rep) == IF b.pc = "done" THEN rep.errorCount ELSE b.errorCount

\* the error toasts of single entries: lines 105, 136, 154, 233
EntryToasts == ItemToasts \cup {"invalidPath"}

C31_NothingAfterTeardown ==
    [][~isMounted
       => /\ isDragOver' = isDragOver
          /\ Len(dispatch') = Len(dispatch)
          /\ \A d \in Drops : batch[d].pc = "none" => batch'[d].pc = "none"]_vars

\* C32 (as claimed): whatever the order of the subscription completing and the
\* cleanup running, once both have happened unlisten has been called, and it is
\* called once.
C32_AlwaysReleased ==
    (~isMounted) ~> (setup # "awaiting" /\ (setup = "done" => unlisten = "called"))

\* C33: after an enter or an over event the hover state is true, after a leave or
\* a drop event it is false, a dispatch that begins to execute sets it to false,
\* and nothing else changes it: not a discarded dispatch, not a render, not a step
\* of the loop, not the effect.
C33_HoverFollowsEvents ==
    [][/\ (DragEnter \/ DragOver) => isDragOver'
       /\ (DragLeave \/ DragDrop) => ~isDragOver'
       /\ \A d \in Drops :
            (dispatch[d].st = "armed" /\ dispatch'[d].st = "started") => ~isDragOver'
       /\ isDragOver' # isDragOver
          => \/ /\ Listening
                /\ isMounted
                /\ UNCHANGED <<handler, isProcessing, isProcessingRef, effectVars>>
                /\ \/ dispatch' = dispatch /\ batch' = batch
                   \/ Len(dispatch') = Len(dispatch) + 1 /\ batch' = Append(batch, NoBatch)
             \/ \E d \in Drops : dispatch[d].st = "armed" /\ dispatch'[d].st = "started"]_vars

\* C33: the hover state is true while a batch runs: an over event has arrived
\* after the dispatch that set it to false
C33_Witness ==
    /\ isDragOver
    /\ Running # {}

\* C38: an empty-string entry is tallied as an error, with its toast, in the turn
\* in which the loop reaches it, without an await; the loop goes on.  In a turn in
\* which the loop leaves entry i (0: the loop starts) the entries between i and the
\* entry of the next await, or the end of the list, are the empty strings passed:
\* each shows one toast and adds one error, besides the error of entry i itself if
\* it failed, and the next await is getPathInfo of a later entry.
C38_EmptyEntryTallied ==
    [][\A d \in Drops :
          LET b == batch[d]
              c == batch'[d]
              over == c.pc = "done"
              passed == IF over THEN (IF b.pc = "none" THEN c.total ELSE b.total) - b.i
                        ELSE c.i - b.i - 1
              own == IF \E t \in ItemToasts : toasts'[t] > 0 THEN 1 ELSE 0
          IN  (c # b /\ c.total > 0 /\ (over \/ c.i # b.i))
              => /\ passed >= 0
                 /\ toasts'["invalidPath"] = passed
                 /\ ErrorsOf(c, report') = b.errorCount + own + passed
                 /\ ~over => c.pc = "getPathInfo"
                 /\ over => report'.total = c.total]_vars

\* C38: the first entry of a list of two was the empty string: it has been
\* tallied and shown, and the loop awaits getPathInfo of the second entry
C38_Witness ==
    /\ toasts["invalidPath"] = 1
    /\ \E d \in Drops :
         /\ batch[d].total = 2
         /\ batch[d].i = 2
         /\ batch[d].pc = "getPathInfo"
         /\ batch[d].errorCount = 1
         /\ batch[d].successCount = 0

\* ================================================================ claims, manual queue
ItemOf(fs, id) == {k \in 1..Len(fs) : fs[k].id = id}

\* C6 (as claimed): no item whose status is success or error changes to pending or
\* processing in a step other than resetStatus; in particular start() does not
\* re-run a terminal item.
C6_TerminalStaysTerminal ==
    [][ResetStatus
       \/ \A k \in 1..Len(files) :
            files[k].status \in Terminal
            => \A m \in ItemOf(files', files[k].id) : files'[m].status \in Terminal]_vars

\* C7 (as claimed): between two resets the Item Processor is invoked at most once
\* for an item of the queue, whatever pause and start clicks happen.
C7_ProcessedAtMostOnce ==
    \A id \in Ids : invocations[id] <= 1

\* C8 (as claimed): while the queue is paused no pending item is handed to the
\* Item Processor; an item later than the one in flight at pause() stays pending.
C8_PausedStartsNoItem ==
    [][(isPaused /\ isPaused')
       => \A k \in 1..Len(files) :
            files[k].status = "pending"
            => \A m \in ItemOf(files', files[k].id) : files'[m].status # "processing"]_vars

\* C9 (as claimed): resetStatus returns every item to pending with error and
\* iconData cleared, sets currentIndex and progress to 0, and keeps the items'
\* identity, kind and order.
C9_ResetClearsItems ==
    [][ResetStatus
       => /\ Len(files') = Len(files)
          /\ \A k \in 1..Len(files) :
               files'[k] = [files[k] EXCEPT !.status = "pending", !.error = NoError,
                                            !.iconData = NoIcon]
          /\ currentIndex' = 0
          /\ progress' = NoProgress]_vars

\* C13 (as claimed): the turn in which a run leaves its loop after its last item
\* calls onComplete with the run's tallies, and onComplete is called in no other turn.
C13_CompleteCalledOnce ==
    [][/\ \A k \in 1..Len(runs) :
            (Len(runs') < Len(runs) /\ runs' = Remove(runs, k))
            => onComplete' = [successCount |-> runs[k].successCount,
                              errorCount |-> runs[k].errorCount]
       /\ onComplete' # NotCalled => Len(runs') < Len(runs)]_vars

\* C16 (as claimed): at most one processFile invocation is in flight, and at most
\* one run loop is executing.
C16_OneProcessorInFlight ==
    /\ Len(runs) <= 1
    /\ Cardinality({k \in 1..Len(runs) : runs[k].pc # "delay"}) <= 1

\* C23 (as claimed): an item carries an error message only while its status is
\* error, and icon data only while its status is success.
C23_DetailMatchesStatus ==
    \A k \in 1..Len(files) :
        /\ files[k].error # NoError => files[k].status = "error"
        /\ files[k].iconData # NoIcon => files[k].status = "success"

\* C24 (as claimed): the processing flag is true in every state in which a run
\* has an item in flight or waits to take its next item.
C24_FlagCoversRuns ==
    Len(runs) > 0 => queueProcessing

\* C25 (as claimed): the cursor is within the list, 0 <= currentIndex <= number of
\* items, and every item below it is success or error.
C25_CursorWithinList ==
    /\ 0 <= currentIndex
    /\ currentIndex <= Len(files)
    /\ \A k \in 1..Len(files) : k <= currentIndex => files[k].status \in Terminal

\* C28 (as claimed): in every state in which a collaborator call of processFile
\* for an item is outstanding, the item, if listed, has status processing.
C28_InFlightIsProcessing ==
    \A k \in 1..Len(runs) :
        runs[k].pc # "delay"
        => \A m \in ItemOf(files, runs[k].files[runs[k].i + 1].id) :
             files[m].status = "processing"

\* C34 (as claimed): progress is completed / total: the turn that ends the item
\* at index i of n sets it to (i + 1) / n; it is within 0..1; it does not decrease
\* except by clearAll and resetStatus, which set it to 0; and it is 1 exactly when
\* the last item of the list is success or error.
C34_ProgressIsCompletedOverTotal ==
    [][/\ (ClearAll \/ ResetStatus) => progress' = NoProgress
       /\ ~(ClearAll \/ ResetStatus)
          => progress'.done * progress.of >= progress.done * progress'.of
       /\ 0 <= progress'.done
       /\ progress'.done <= progress'.of
       /\ progress'.done = progress'.of
          <=> (Len(files') > 0 /\ files'[Len(files')].status \in Terminal)
       /\ Len(runs') = Len(runs)
          => \A k \in 1..Len(runs) :
               (runs[k].pc # "delay" /\ runs'[k].pc = "delay")
               => progress'.done * Len(files') = (runs[k].i + 1) * progress'.of]_vars

\* C35: removeFile takes the one item out of the list and keeps every other item,
\* with its fields, in its place relative to the others; clearAll empties the list
\* and sets progress and currentIndex to 0; neither starts or moves a run, awaits
\* a collaborator or resolves a createShortcut request.
C35_RemoveAndClearFrame ==
    [][/\ \A k \in 1..Len(files) :
            RemoveFile(k)
            => /\ Len(files') = Len(files) - 1
               /\ \A m \in 1..Len(files') :
                    files'[m] = IF m < k THEN files[m] ELSE files[m + 1]
               /\ \A m \in 1..Len(files') : files'[m].id # files[k].id
               /\ UNCHANGED <<runs, adds, invocations, started, queueProcessing, isPaused>>
               /\ request' = NoRequest
               /\ onComplete' = NotCalled
       /\ ClearAll
          => /\ files' = <<>>
             /\ progress' = NoProgress
             /\ currentIndex' = 0
             /\ UNCHANGED <<runs, adds, invocations, started, queueProcessing, isPaused>>
             /\ request' = NoRequest
             /\ onComplete' = NotCalled
       /\ Len(files') < Len(files)
          => /\ ~queueProcessing
             /\ runs' = runs
             /\ request' = NoRequest
             /\ \/ /\ \E k \in 1..Len(files) : files' = Remove(files, k)
                   /\ UNCHANGED <<progress, currentIndex>>
                \/ /\ files' = <<>>
                   /\ progress' = NoProgress
                   /\ currentIndex' = 0]_vars

\* C35: of two processed items the first has been removed; the second is kept as
\* it was
C35_Witness ==
    /\ nextId = 2
    /\ Len(files) = 1
    /\ files[1].id = 2
    /\ files[1].status \in Terminal
    /\ runs = <<>>
    /\ currentIndex = 1

\* ================================================================ claims, both paths
\* the successes a batch has tallied (the result record holds them once it returned)
SuccessesOf(b, rep) == IF b.pc = "done" THEN rep.successCount ELSE b.successCount

\* C10: whatever the icon collaborator does (throws, yields null, yields no
\* icon_data), the item goes on to createShortcut with its tallies untouched, and
\* when the icon step gave no icon and createShortcut succeeds the request carries
\* no icon and the item is a success: one more in successCount in the automatic
\* path; status success with iconData unset, if the item is still listed, in the
\* manual queue.
C10_IconFailureIsolated ==
    [][/\ \A d \in Drops :
            /\ (batch[d].pc = "getIcon" /\ batch'[d] # batch[d])
               => /\ batch'[d].pc = "createShortcut"
                  /\ batch'[d].i = batch[d].i
                  /\ batch'[d].successCount = batch[d].successCount
                  /\ batch'[d].errorCount = batch[d].errorCount
            /\ (/\ batch[d].pc = "createShortcut"
                /\ batch[d].iconResult # "data"
                /\ created' # NoRequest)
               => /\ created'.icon = NoIcon
                  /\ SuccessesOf(batch'[d], report') = batch[d].successCount + 1
       /\ Len(runs') = Len(runs)
          => \A k \in 1..Len(runs) :
               /\ (runs[k].pc = "getIcon" /\ runs'[k] # runs[k])
                  => /\ runs'[k].pc = "createShortcut"
                     /\ runs'[k].i = runs[k].i
                     /\ runs'[k].successCount = runs[k].successCount
                     /\ runs'[k].errorCount = runs[k].errorCount
               /\ (/\ runs[k].pc = "createShortcut"
                   /\ runs[k].iconResult # "data"
                   /\ runs'[k] # runs[k]
                   /\ request' # NoRequest)
                  => /\ request'.icon = NoIcon
                     /\ runs'[k].successCount = runs[k].successCount + 1
                     /\ \A m \in ItemOf(files', request'.path) :
                          /\ files'[m].status = "success"
                          /\ files'[m].iconData = NoIcon]_vars

\* C10: a manual item has just ended as a success with no icon
C10_Witness ==
    /\ request # NoRequest
    /\ request.icon = NoIcon
    /\ \E m \in ItemOf(files, request.path) :
         /\ files[m].status = "success"
         /\ files[m].iconData = NoIcon

\* C11: an item that ends with an error does not end the batch and changes no
\* earlier tally.  Automatic path: the successes stay, the errors grow by one and
\* by the empty entries that follow, and the loop is at its next entry or, with
\* every later entry tallied, over.  Manual queue: the run keeps its successes,
\* waits, and goes on to the next item; it leaves its loop only after its last item.
C11_FailureDoesNotHalt ==
    [][/\ \A d \in Drops :
            (/\ batch[d].pc \notin {"none", "done"}
             /\ batch'[d] # batch[d]
             /\ created' = NoRequest
             /\ \E t \in ItemToasts : toasts'[t] = 1)
            => /\ SuccessesOf(batch'[d], report') = batch[d].successCount
               /\ IF batch'[d].pc = "done"
                  THEN ErrorsOf(batch'[d], report')
                         = batch[d].errorCount + 1 + (batch[d].total - batch[d].i)
                  ELSE /\ batch'[d].pc = "getPathInfo"
                       /\ batch'[d].i > batch[d].i
                       /\ batch'[d].errorCount
                            = batch[d].errorCount + (batch'[d].i - batch[d].i)
       /\ \A k \in 1..Len(runs) :
            /\ (Len(runs') = Len(runs) /\ runs'[k].errorCount > runs[k].errorCount)
               => /\ runs'[k].errorCount = runs[k].errorCount + 1
                  /\ runs'[k].successCount = runs[k].successCount
                  /\ runs'[k].pc = "delay"
                  /\ runs'[k].i = runs[k].i
            /\ (Len(runs') = Len(runs) /\ runs[k].pc = "delay" /\ runs'[k] # runs[k])
               => /\ runs'[k].i = runs[k].i + 1
                  /\ runs'[k].pc = "validate"
                  /\ runs'[k].successCount = runs[k].successCount
                  /\ runs'[k].errorCount = runs[k].errorCount
            /\ (Len(runs') < Len(runs) /\ runs' = Remove(runs, k))
               => /\ runs[k].pc = "delay"
                  /\ runs[k].i + 1 >= Len(runs[k].files)]_vars

\* C11: the batch of a list of two has ended with one success and then one error
C11_Witness ==
    /\ report = [total |-> 2, successCount |-> 1, errorCount |-> 1]
    /\ toasts["missing"] = 1
    /\ created = NoRequest

\* C12: the cause "does not exist" is recorded (manual queue) or shown (automatic
\* path) only in a turn that resumes from the existence check, which is reached
\* only when the legality check passed; the cause "path invalid" only in a turn
\* that resumes from the legality check; the two causes differ.
C12_CausesDistinct ==
    [][/\ \A d \in Drops :
            /\ toasts'["missing"] = 1 /\ batch'[d] # batch[d]
               => batch[d].pc = "checkFileExists" /\ toasts'["illegal"] = 0
            /\ toasts'["illegal"] = 1 /\ batch'[d] # batch[d]
               => batch[d].pc = "validate"
       /\ Len(runs') = Len(runs)
          => \A k \in 1..Len(runs) :
               (runs'[k].errorCount > runs[k].errorCount)
               => \A m \in ItemOf(files', runs[k].files[runs[k].i + 1].id) :
                    /\ files'[m].status = "error"
                    /\ runs[k].pc = "validate" => files'[m].error # "doesNotExist"
                    /\ runs[k].pc = "checkFileExists" => files'[m].error # "invalidPath"
                    /\ files'[m].error = "doesNotExist" => runs[k].pc = "checkFileExists"
                    /\ files'[m].error = "invalidPath" => runs[k].pc = "validate"]_vars

\* C12: an item of the manual queue has just failed the existence check
C12_Witness ==
    /\ \E k \in 1..Len(runs) :
         /\ runs[k].pc = "delay"
         /\ runs[k].errorCount > 0
         /\ \E m \in ItemOf(files, runs[k].files[runs[k].i + 1].id) :
              files[m].status = "error" /\ files[m].error = "doesNotExist"

\* the awaits of one item, in the order of the code
Stages == <<"getPathInfo", "validate", "checkFileExists", "getIcon", "createShortcut">>
StageOf(pc) == CHOOSE n \in 1..Len(Stages) : Stages[n] = pc
InItem(pc) == \E n \in 1..Len(Stages) : Stages[n] = pc

\* C15: within one batch the items are taken in order, one at a time.  Automatic
\* path: a loop that is at an await of entry i moves only to the next await of the
\* same entry, or, having tallied entry i, to a later entry (every entry between
\* tallied too), or to its end with every entry tallied.  Manual queue: a run
\* starts at the cursor its closure captured; it moves to index i + 1 only from the
\* delay that follows the outcome of index i, and it reaches that delay only in the
\* turn that sets the item's status to success or error.
C15_InOrderOneAtATime ==
    [][/\ \A d \in Drops :
            (InItem(batch[d].pc) /\ batch'[d] # batch[d])
            => LET b == batch[d]
                   c == batch'[d]
               IN  IF c.pc = "done"
                   THEN report'.successCount + report'.errorCount
                          >= b.successCount + b.errorCount + 1 + (b.total - b.i)
                   ELSE /\ InItem(c.pc)
                        /\ c.i >= b.i
                        /\ c.i = b.i => /\ StageOf(c.pc) = StageOf(b.pc) + 1
                                        /\ c.successCount = b.successCount
                                        /\ c.errorCount = b.errorCount
                        /\ c.i > b.i => /\ c.pc = "getPathInfo"
                                        /\ c.successCount + c.errorCount
                                             >= b.successCount + b.errorCount + (c.i - b.i)
       /\ Len(runs') = Len(runs) + 1
          => LET r == runs'[Len(runs')]
             IN  /\ r.i = currentIndex
                 /\ r.pc = "validate"
                 /\ \A k \in 1..Len(runs) : runs'[k] = runs[k]
       /\ Len(runs') = Len(runs)
          => \A k \in 1..Len(runs) :
               /\ runs'[k].i # runs[k].i
                  => /\ runs[k].pc = "delay"
                     /\ runs'[k].i = runs[k].i + 1
                     /\ runs'[k].pc = "validate"
               /\ (runs'[k].pc = "delay" /\ runs[k].pc # "delay")
                  => /\ runs'[k].i = runs[k].i
                     /\ \A m \in ItemOf(files', runs[k].files[runs[k].i + 1].id) :
                          files'[m].status \in Terminal]_vars

\* C15: the loop over a list of two is at its second entry, the first one having
\* gone through every await and ended as a success
C15_Witness ==
    \E d \in Drops :
        /\ batch[d].total = 2
        /\ batch[d].i = 2
        /\ batch[d].pc = "createShortcut"
        /\ batch[d].successCount = 1
        /\ batch[d].errorCount = 0

\* C17: empty input is rejected before any processing.  Automatic path: the
\* dispatch of an empty list that passes the busy guard shows the notice, resolves
\* no request, calls no callback, logs no result, awaits no collaborator and leaves
\* both flags false.  Manual queue: the notice of the empty queue is shown only
\* with no file listed, in a turn that changes nothing else, resolves no request
\* and calls no onComplete; with no file listed the processing flag is false and
\* no run enters its loop.
C17_EmptyRejected ==
    [][/\ \A d \in Drops :
            (/\ dispatch[d].st = "armed"
             /\ dispatch[d].n = 0
             /\ dispatch'[d].st = "started")
            => /\ toasts' = [NoToasts EXCEPT !["empty"] = 1]
               /\ created' = NoRequest
               /\ callbacks' = {}
               /\ report' = NoReport
               /\ batch'[d] = Returned(0, 0)
               /\ ~isProcessing'
               /\ ~isProcessingRef'
       /\ "emptyQueue" \in notices'
          => /\ Len(files) = 0
             /\ notices' = {"emptyQueue"}
             /\ request' = NoRequest
             /\ onComplete' = NotCalled
             /\ ~queueProcessing'
             /\ UNCHANGED <<files, queueProcessing, isPaused, progress, currentIndex, runs,
                            adds, invocations>>
       /\ Len(files) = 0
          => /\ ~queueProcessing
             /\ Len(runs') <= Len(runs)
             /\ started' = started]_vars

\* C17: start() has just been refused on an empty queue
C17_Witness ==
    /\ notices = {"emptyQueue"}
    /\ Len(files) = 0
    /\ ~queueProcessing
    /\ runs = <<>>

\* C18: no failure of a collaborator leaves the item processor as an exception.
\* Manual queue: a run leaves an await of processFile only for the next await or
\* for the delay of the loop, with exactly one more in one of its two tallies:
\* one more success exactly when the turn sets the item's status to success, one
\* more error exactly when it sets the status to error with an error message; a
\* run ends only from the delay.  Automatic path: a turn that ends an item with an
\* error toast counts one more error at least, and the loop goes on to its next
\* await or to its result.
C18_FailuresBecomeTallies ==
    [][/\ \A k \in 1..Len(runs) :
            /\ (Len(runs') = Len(runs) /\ runs[k].pc # "delay" /\ runs'[k] # runs[k])
               => LET r  == runs[k]
                      q  == runs'[k]
                      it == ItemOf(files', r.files[r.i + 1].id)
                  IN  IF q.pc = "delay"
                      THEN /\ q.successCount + q.errorCount
                                = r.successCount + r.errorCount + 1
                           /\ q.successCount \in {r.successCount, r.successCount + 1}
                           /\ q.successCount > r.successCount
                              => \A m \in it : files'[m].status = "success"
                           /\ q.errorCount > r.errorCount
                              => \A m \in it : /\ files'[m].status = "error"
                                               /\ files'[m].error # NoError
                      ELSE /\ q.pc \in {"checkFileExists", "getIcon", "createShortcut"}
                           /\ q.successCount = r.successCount
                           /\ q.errorCount = r.errorCount
                           /\ files' = files
            /\ (Len(runs') < Len(runs) /\ runs' = Remove(runs, k))
               => runs[k].pc = "delay"
       /\ \A d \in Drops :
            (/\ InItem(batch[d].pc)
             /\ batch'[d] # batch[d]
             /\ \E t \in ItemToasts : toasts'[t] > 0)
            => /\ ErrorsOf(batch'[d], report') >= batch[d].errorCount + 1
               /\ IF batch'[d].pc = "done"
                  THEN report' # NoReport /\ report'.total = batch[d].total
                  ELSE batch'[d].pc = "getPathInfo" /\ batch'[d].i > batch[d].i]_vars

\* C18: a collaborator of the manual queue has rejected with a value that is not
\* an Error, and the item is an error with the fallback message
C18_Witness ==
    \E k \in 1..Len(runs) :
        /\ runs[k].pc = "delay"
        /\ runs[k].errorCount = 1
        /\ \E m \in ItemOf(files, runs[k].files[runs[k].i + 1].id) :
             files[m].status = "error" /\ files[m].error = "unknownError"

\* C19: addFilePath awaits the path info and nothing else.  The turn in which the
\* path info arrives appends one item, pending, with a new id, at the end of the
\* list and keeps the items before it; the turn in which it fails shows a notice
\* and keeps the list.  Neither turn changes the cursor, the progress, a run or the
\* processing flag, resolves a createShortcut request or calls onComplete; a turn
\* that only takes up a path (or finds it blank) changes nothing of these either.
C19_AddAppendsPending ==
    [][/\ \A k \in 1..Len(adds) :
            (adds[k] = "getPathInfo" /\ adds' = Remove(adds, k))
            => /\ \/ /\ Len(files') = Len(files) + 1
                     /\ \A m \in 1..Len(files) : files'[m] = files[m]
                     /\ files'[Len(files')].status = "pending"
                     /\ files'[Len(files')].error = NoError
                     /\ files'[Len(files')].iconData = NoIcon
                     /\ \A m \in 1..Len(files) : files[m].id # files'[Len(files')].id
                     /\ notices' = {}
                  \/ /\ files' = files
                     /\ notices' = {"noPathInfo"}
               /\ UNCHANGED <<currentIndex, progress, runs, queueProcessing, isPaused>>
               /\ request' = NoRequest
               /\ onComplete' = NotCalled
       /\ (Len(adds') > Len(adds) \/ skipped' = "blank")
          => /\ UNCHANGED <<files, currentIndex, progress, runs, queueProcessing, isPaused>>
             /\ skipped' = "blank" => adds' = adds
             /\ notices' = {}
             /\ request' = NoRequest
             /\ onComplete' = NotCalled]_vars

\* C19: a second path has been added while the first item had been processed
C19_Witness ==
    /\ Len(files) = 2
    /\ files[1].status \in Terminal
    /\ files[2].status = "pending"
    /\ adds = <<>>
    /\ notices = {}
    /\ runs = <<>>

\* C20: when the file dialog closes without a path, addFromDialog ends: the turn
\* shows no toast, appends no item, awaits no path info (the dialog's entry is all
\* that leaves the pending adds), resolves no createShortcut request, calls no
\* onComplete and changes neither cursor, progress, flags nor runs.
C20_CancelIsSilent ==
    [][skipped' = "cancelled"
       => /\ notices' = {}
          /\ request' = NoRequest
          /\ onComplete' = NotCalled
          /\ \E k \in 1..Len(adds) : adds[k] = "openFileDialog" /\ adds' = Remove(adds, k)
          /\ UNCHANGED <<files, currentIndex, progress, runs, queueProcessing, isPaused,
                         nextId, invocations>>]_vars

\* C20: a dialog has been cancelled with a processed item in the list
C20_Witness ==
    /\ skipped = "cancelled"
    /\ Len(files) = 1
    /\ files[1].status \in Terminal
    /\ adds = <<>>

\* C21: the steps of an item short-circuit in the order validate, existence, icon,
\* create.  In both paths an await is entered only from the await before it, of
\* the same item, in a turn that tallies no error; a turn that tallies an error
\* for an item leaves the item (automatic path: next entry or end of the loop;
\* manual queue: the delay of the loop); and a createShortcut request resolves
\* only for an item that stood at its createShortcut await.
C21_StepsShortCircuit ==
    [][/\ \A d \in Drops :
            LET b == batch[d]
                c == batch'[d]
            IN  /\ (c # b /\ c.pc \in {"checkFileExists", "getIcon", "createShortcut"})
                   => /\ InItem(b.pc)
                      /\ StageOf(c.pc) = StageOf(b.pc) + 1
                      /\ c.i = b.i
                      /\ c.errorCount = b.errorCount
                      /\ \A t \in ItemToasts : toasts'[t] = 0
                /\ (c # b /\ InItem(b.pc) /\ \E t \in ItemToasts : toasts'[t] > 0)
                   => \/ c.pc = "done"
                      \/ c.pc = "getPathInfo" /\ c.i > b.i
                /\ (c # b /\ created' # NoRequest)
                   => b.pc = "createShortcut" /\ created'.path = <<d, b.i>>
       /\ created' # NoRequest => \E d \in Drops : batch'[d] # batch[d]
       /\ Len(runs') = Len(runs)
          => \A k \in 1..Len(runs) :
               LET r == runs[k]
                   q == runs'[k]
               IN  /\ (q # r /\ q.pc \in {"checkFileExists", "getIcon", "createShortcut"})
                      => /\ r.pc \in {"validate", "checkFileExists", "getIcon"}
                         /\ StageOf(q.pc) = StageOf(r.pc) + 1
                         /\ q.i = r.i
                         /\ q.errorCount = r.errorCount
                   /\ q.errorCount > r.errorCount => q.pc = "delay"
       /\ request' # NoRequest
          => \E k \in 1..Len(runs) :
               /\ runs[k].pc = "createShortcut"
               /\ request'.path = runs[k].files[runs[k].i + 1].id
               /\ Len(runs') = Len(runs)
               /\ runs'[k].successCount = runs[k].successCount + 1]_vars

\* C21: an item of the manual queue has failed its validation and the loop waits
C21_Witness ==
    /\ request = NoRequest
    /\ \E k \in 1..Len(runs) :
         /\ runs[k].pc = "delay"
         /\ runs[k].errorCount = 1
         /\ \E m \in ItemOf(files, runs[k].files[runs[k].i + 1].id) :
              files[m].status = "error" /\ files[m].error = "invalidPath"

\* C22: with every collaborator call eventually returning or failing, the busy
\* flag, once set, is eventually cleared, whether the list was empty or the loop
\* ran to its end (no step of the loop throws outside the try block of its item);
\* and the flag is set for as long as an entry of a batch is not yet tallied.
C22_BusyEventuallyCleared ==
    /\ [](\A d \in Drops :
            (batch[d].pc \notin {"none", "done"}) => (isProcessingRef /\ isProcessing))
    /\ [][\A d \in Drops :
            (batch[d].pc = "none" /\ batch'[d].pc # "none" /\ batch'[d].total = 0)
            => ~isProcessingRef' /\ ~isProcessing']_vars
    /\ \A d \in 1..MaxDrops :
         (d \in Drops /\ batch[d].pc \notin {"none", "done"})
         ~> (d \in Drops /\ batch[d].pc = "done" /\ ~isProcessingRef /\ ~isProcessing)

\* C22: the batch of a list of two has returned, an error among its items, and the
\* flag is clear
C22_Witness ==
    /\ ~isProcessingRef
    /\ ~isProcessing
    /\ report # NoReport
    /\ report.total = 2
    /\ report.errorCount > 0
    /\ \E d \in Drops : batch[d].pc = "done" /\ batch[d].total = 2

\* C30 (as claimed): when createShortcut fails, the reason recorded for the item
\* (manual queue) or shown for it (automatic path) is the collaborator's own
\* message, whatever the collaborator rejected with.
C30_ReasonVerbatim ==
    [][/\ Len(runs') = Len(runs)
          => \A k \in 1..Len(runs) :
               (runs[k].pc = "createShortcut" /\ runs'[k].errorCount > runs[k].errorCount)
               => \A m \in ItemOf(files', runs[k].files[runs[k].i + 1].id) :
                    /\ files'[m].status = "error"
                    /\ files'[m].error = "message"
       /\ \A d \in Drops :
            (/\ batch[d].pc = "createShortcut"
             /\ batch'[d] # batch[d]
             /\ created' = NoRequest)
            => \A t \in ItemToasts : toasts'[t] > 0 => t = "message"]_vars

DirectoryCalls == {"validateDirectoryPath", "getDirectoryIcon"}
FileCalls == {"validateFilePath", "getFileIcon"}

\* C37: the legality check and the icon request an item awaits are those of its
\* kind: validateDirectoryPath and getDirectoryIcon for a directory,
\* validateFilePath and getFileIcon for a file, and one of the two whenever the
\* item is at that step.  The kind is what getPathInfo said of the path: in the
\* automatic path when the loop asked, in the manual queue when the item was added.
C37_CallsOfTheKind ==
    /\ \A d \in Drops :
         LET b == batch[d]
         IN  /\ b.call \in DirectoryCalls => b.isDirectory
             /\ b.call \in FileCalls => ~b.isDirectory
             /\ b.pc = "validate" <=> b.call \in {"validateDirectoryPath", "validateFilePath"}
             /\ b.pc = "getIcon" <=> b.call \in {"getDirectoryIcon", "getFileIcon"}
    /\ \A k \in 1..Len(runs) :
         LET r == runs[k]
         IN  /\ r.pc = "validate" <=> r.call \in {"validateDirectoryPath", "validateFilePath"}
             /\ r.pc = "getIcon" <=> r.call \in {"getDirectoryIcon", "getFileIcon"}
             /\ r.pc # "delay"
                => /\ r.call \in DirectoryCalls => IsDirectory(r.files[r.i + 1].id)
                   /\ r.call \in FileCalls => ~IsDirectory(r.files[r.i + 1].id)
                   /\ \A m \in ItemOf(files, r.files[r.i + 1].id) :
                        /\ r.call \in DirectoryCalls => files[m].isDirectory
                        /\ r.call \in FileCalls => ~files[m].isDirectory

\* C37: a directory of the manual queue awaits its icon
C37_Witness ==
    \E k \in 1..Len(runs) :
        /\ runs[k].call = "getDirectoryIcon"
        /\ \E m \in ItemOf(files, runs[k].files[runs[k].i + 1].id) : files[m].isDirectory

\* ================================================================ claims, shortcut name
\* the place of the last '.' of a name, 0 if it has none
LastDot(name) ==
    IF Includes(name, ".")
    THEN CHOOSE k \in 1..Len(name) :
           name[k] = "." /\ \A m \in (k + 1)..Len(name) : name[m] # "."
    ELSE 0

\* C36 (as claimed): for a file the name is the display name without its last '.'
\* and whatever follows it, if the display name has a '.'; for a directory it is
\* the display name; the same in both places.
C36_NameWithoutLastSegment ==
    namedBy # "none"
    => LET n == descriptor.file_name
       IN  shortcutName = IF ~descriptor.is_directory /\ LastDot(n) > 0
                          THEN SubSeq(n, 1, LastDot(n) - 1)
                          ELSE n

\* C36 (amended): for a file the name is the display name without its last '.'
\* and the text after it when at least one character follows that '.'; a display
\* name that ends with '.' or has no '.' is left as it is; for a directory the
\* name is the display name; the same in both places.
C36_NameWithoutExtension ==
    namedBy # "none"
    => LET n == descriptor.file_name
       IN  shortcutName = IF /\ ~descriptor.is_directory
                             /\ LastDot(n) > 0
                             /\ LastDot(n) < Len(n)
                          THEN SubSeq(n, 1, LastDot(n) - 1)
                          ELSE n

\* C36: the component has derived the name of a file whose display name ends
\* with '.', and left it as it is
C36_Witness ==
    /\ namedBy = "queue"
    /\ descriptor = [file_name |-> <<"a", ".", "b", ".">>, is_directory |-> FALSE]
    /\ shortcutName = <<"a", ".", "b", ".">>

\* C39 (as claimed): the name derived from a display name that is not empty is
\* not empty.
C39_NameNotEmpty ==
    (namedBy # "none" /\ Len(descriptor.file_name) > 0) => Len(shortcutName) > 0
====
